---- MODULE Spec2Model ----
(***************************************************************************)
(* Model of ezdxf/entities/appdata.py: the three metadata stores attached  *)
(* to a DXF entity (AppData, Reactors, ExtensionDict).                     *)
(*                                                                         *)
(* Four specifications share the variables; each one moves only its own   *)
(* component and leaves the other components' variables unchanged:         *)
(*   SpecXD  the life of ExtensionDict instances inside one document,      *)
(*   SpecAD  one AppData store,                                            *)
(*   SpecRX  one Reactors store,                                           *)
(*   SpecFT  the two from_tags parsers applied to arbitrary tag groups.    *)
(***************************************************************************)
EXTENDS Integers, Sequences, FiniteSets, TLC

VARIABLES
    xds,       \* ExtensionDict instances: <<[owner, xdict]>>
    xhist,     \* per instance: how it was built and what its get() calls did
    dicts,     \* heap of DXFDictionary objects: <<[handle, owner, data]>>
    entitydb,  \* entity database of the document: handle -> index into dicts
    xcall,     \* the last ExtensionDict call and its outcome
    appdata,   \* AppData.data: the OrderedDict as a sequence of [key, tags]
    acall,     \* the last AppData call and its outcome
    reactors,  \* Reactors.reactors: the set of handle strings, as it iterates
    rcall,     \* the last Reactors call and its outcome
    ft         \* from_tags applied to a tag group: input and outcome

vars == <<xds, xhist, dicts, entitydb, xcall, appdata, acall, reactors, rcall, ft>>

-----------------------------------------------------------------------------
(* Bounds of the model *)

MaxInst == 2      \* ExtensionDict instances alive at once
MaxDicts == 3     \* DXFDictionary objects on the heap
MaxLookups == 2   \* entity-database lookups made by one instance
MaxTags == 4      \* length of a tag group handed to from_tags
MaxHandles == 3   \* length of the handle list handed to Reactors.set
MaxGroups == 2    \* groups held by one AppData store

-----------------------------------------------------------------------------
(* Constants imported from ezdxf.lldxf.const *)

APP_DATA_MARKER == 102
XDICT_HANDLE_CODE == 360
REACTOR_HANDLE_CODE == 330
ACAD_XDICTIONARY == "{ACAD_XDICTIONARY"
ACAD_REACTORS == "{ACAD_REACTORS"

(* A DXF tag: dxftag(code, value), compared by (code, value) *)
dxftag(code, value) == [code |-> code, value |-> value]

(* An optional tag group: Python's None, or a Tags list *)
NoTags == [none |-> TRUE, tags |-> <<>>]
SomeTags(t) == [none |-> FALSE, tags |-> t]

(* All sequences over S of length at most n *)
SeqUpTo(S, n) == UNION {[1..k -> S] : k \in 0..n}

-----------------------------------------------------------------------------
(* ExtensionDict: the _xdict slot is None, a handle string or a dictionary *)

XNone == [tag |-> "None", str |-> "", ref |-> 0]
XStr(h) == [tag |-> "str", str |-> h, ref |-> 0]
XObj(d) == [tag |-> "obj", str |-> "", ref |-> d]

NoOwner == "None"
Entities == {"E1", "E2"}
OwnerHandle(e) == IF e = "E1" THEN "10" ELSE "20"

(* ExtensionDict.__init__(owner, handle) *)
ExtensionDict(owner, handle) == [owner |-> owner, xdict |-> handle]

NoInst == ExtensionDict(NoOwner, XNone)

(* The three states of an instance *)
XState(x) ==
    CASE x.xdict.tag = "None" -> "Absent"
      [] x.xdict.tag = "str" -> "Unresolved"
      [] OTHER -> "Resolved"

(* A from_tags that only asks for enough tags *)
XD_from_tags_min(entity, in) ==
    IF in.none
    THEN [err |-> "", inst |-> ExtensionDict(entity, XNone)]
    ELSE IF Len(in.tags) < 3 \/ in.tags[2].code # XDICT_HANDLE_CODE
         THEN [err |-> "DXFStructureError", inst |-> NoInst]
         ELSE [err |-> "", inst |-> ExtensionDict(entity, XStr(in.tags[2].value))]

(* ExtensionDict.from_tags(entity, tags) *)
XD_from_tags(entity, in) ==
    IF in.none
    THEN [err |-> "", inst |-> ExtensionDict(entity, XNone)]
    ELSE IF Len(in.tags) # 3 \/ in.tags[2].code # XDICT_HANDLE_CODE
         THEN [err |-> "DXFStructureError", inst |-> NoInst]
         ELSE [err |-> "", inst |-> ExtensionDict(entity, XStr(in.tags[2].value))]

(* Entity database: get(handle) resolves a handle or fails with NotFound *)
EntityDB_get(db, handle) ==
    IF handle \in DOMAIN db
    THEN [err |-> "", ref |-> db[handle]]
    ELSE [err |-> "NotFound", ref |-> 0]

(* Handles the document hands out to new objects, in order *)
HandlePool == <<"A1", "A2", "A3", "A4", "A5", "A6">>
NextHandle(db) == HandlePool[Cardinality(DOMAIN db)]

(* doc.objects.add_dictionary(owner=handle): a new dictionary entity,
   registered in the entity database *)
add_dictionary(heap, db, ownerHandle) ==
    LET h == NextHandle(db)
        d == [handle |-> h, owner |-> ownerHandle, data |-> 0]
    IN [heap |-> Append(heap, d), db |-> db @@ (h :> Len(heap) + 1),
        ref |-> Len(heap) + 1]

(* What a get() call reports: the new slot, the returned object (0: none),
   the error raised, the lookups and creations it made, the new heap and db *)
GetResult(x, ret, err, lookups, news, heap, db) ==
    [xdict |-> x, ret |-> ret, err |-> err, lookups |-> lookups,
     news |-> news, heap |-> heap, db |-> db]

(* A _new() that creates an unowned dictionary for an instance without owner *)
XD_new_orphan(self, heap, db) ==
    LET r == add_dictionary(heap, db,
               IF self.owner = NoOwner THEN "0" ELSE OwnerHandle(self.owner))
    IN [err |-> "", heap |-> r.heap, db |-> r.db, ref |-> r.ref]

(* ExtensionDict._new() *)
XD_new(self, heap, db) ==
    IF self.owner = NoOwner
    THEN [err |-> "AttributeError", heap |-> heap, db |-> db, ref |-> 0]
    ELSE LET r == add_dictionary(heap, db, OwnerHandle(self.owner))
         IN [err |-> "", heap |-> r.heap, db |-> r.db, ref |-> r.ref]

(* A get() that takes a failed lookup for "no dictionary" *)
XD_get_swallow(self, heap, db) ==
    IF self.xdict.tag = "None"
    THEN LET n == XD_new(self, heap, db)
         IN IF n.err # ""
            THEN GetResult(self.xdict, 0, n.err, 0, 0, heap, db)
            ELSE GetResult(XObj(n.ref), n.ref, "", 0, 1, n.heap, n.db)
    ELSE IF self.xdict.tag = "str"
    THEN IF self.owner = NoOwner
         THEN GetResult(self.xdict, 0, "AttributeError", 0, 0, heap, db)
         ELSE LET r == EntityDB_get(db, self.xdict.str)
              IN IF r.err # ""
                 THEN GetResult(XNone, 0, "", 1, 0, heap, db)
                 ELSE GetResult(XObj(r.ref), r.ref, "", 1, 0, heap, db)
    ELSE GetResult(self.xdict, self.xdict.ref, "", 0, 0, heap, db)

(* A get() that forgets to store what it created or looked up *)
XD_get_nocache(self, heap, db) ==
    IF self.xdict.tag = "None"
    THEN LET n == XD_new(self, heap, db)
         IN IF n.err # ""
            THEN GetResult(self.xdict, 0, n.err, 0, 0, heap, db)
            ELSE GetResult(self.xdict, n.ref, "", 0, 1, n.heap, n.db)
    ELSE IF self.xdict.tag = "str"
    THEN IF self.owner = NoOwner
         THEN GetResult(self.xdict, 0, "AttributeError", 0, 0, heap, db)
         ELSE LET r == EntityDB_get(db, self.xdict.str)
              IN IF r.err # ""
                 THEN GetResult(self.xdict, 0, r.err, 1, 0, heap, db)
                 ELSE GetResult(self.xdict, r.ref, "", 1, 0, heap, db)
    ELSE GetResult(self.xdict, self.xdict.ref, "", 0, 0, heap, db)

(* A get() that resolves the handle again on every call *)
XD_get_relookup(self, heap, db) ==
    IF self.xdict.tag = "None"
    THEN LET n == XD_new(self, heap, db)
         IN IF n.err # ""
            THEN GetResult(self.xdict, 0, n.err, 0, 0, heap, db)
            ELSE GetResult(XObj(n.ref), n.ref, "", 0, 1, n.heap, n.db)
    ELSE IF self.owner = NoOwner
    THEN GetResult(self.xdict, 0, "AttributeError", 0, 0, heap, db)
    ELSE LET h == IF self.xdict.tag = "str" THEN self.xdict.str
                  ELSE heap[self.xdict.ref].handle
             r == EntityDB_get(db, h)
         IN IF r.err # ""
            THEN GetResult(self.xdict, 0, r.err, 1, 0, heap, db)
            ELSE GetResult(XObj(r.ref), r.ref, "", 1, 0, heap, db)

(* ExtensionDict.get() *)
XD_get(self, heap, db) ==
    IF self.xdict.tag = "None"
    THEN LET n == XD_new(self, heap, db)
         IN IF n.err # ""
            THEN GetResult(self.xdict, 0, n.err, 0, 0, heap, db)
            ELSE GetResult(XObj(n.ref), n.ref, "", 0, 1, n.heap, n.db)
    ELSE IF self.xdict.tag = "str"
    THEN IF self.owner = NoOwner
         THEN GetResult(self.xdict, 0, "AttributeError", 0, 0, heap, db)
         ELSE LET r == EntityDB_get(db, self.xdict.str)
              IN IF r.err # ""
                 THEN GetResult(self.xdict, 0, r.err, 1, 0, heap, db)
                 ELSE GetResult(XObj(r.ref), r.ref, "", 1, 0, heap, db)
    ELSE GetResult(self.xdict, self.xdict.ref, "", 0, 0, heap, db)

(* An export_dxf that writes the handle of the dictionary's owner *)
XD_export_dxf_owner(self, heap) ==
    IF self.xdict.tag = "None"
    THEN <<>>
    ELSE LET handle == IF self.xdict.tag = "str" THEN self.xdict.str
                       ELSE heap[self.xdict.ref].owner
         IN <<dxftag(APP_DATA_MARKER, ACAD_XDICTIONARY),
              dxftag(XDICT_HANDLE_CODE, handle),
              dxftag(APP_DATA_MARKER, "}")>>

(* ExtensionDict.export_dxf(tagwriter): the tags written *)
XD_export_dxf(self, heap) ==
    IF self.xdict.tag = "None"
    THEN <<>>
    ELSE LET handle == IF self.xdict.tag = "str" THEN self.xdict.str
                       ELSE heap[self.xdict.ref].handle
         IN <<dxftag(APP_DATA_MARKER, ACAD_XDICTIONARY),
              dxftag(XDICT_HANDLE_CODE, handle),
              dxftag(APP_DATA_MARKER, "}")>>

(* ezdxf.clone.clone(obj): None and strings are immutable, a dictionary is
   copied into a new object *)
clone(x, heap) ==
    IF x.tag = "obj"
    THEN [value |-> XObj(Len(heap) + 1), heap |-> Append(heap, heap[x.ref])]
    ELSE [value |-> x, heap |-> heap]

(* A clone() that hands the dictionary itself to the new instance *)
XD_clone_shared(self, heap) ==
    [inst |-> ExtensionDict(NoOwner, self.xdict), heap |-> heap]

(* ExtensionDict.clone() *)
XD_clone(self, heap) ==
    LET c == clone(self.xdict, heap)
    IN [inst |-> ExtensionDict(NoOwner, c.value), heap |-> c.heap]

-----------------------------------------------------------------------------
(* Python strings: the code points of the strings the model uses, and the
   order str.__lt__ gives them (lexicographic by code point) *)

CodePoints(s) ==
    CASE s = "1" -> <<49>>
      [] s = "10" -> <<49, 48>>
      [] s = "2" -> <<50>>
      [] s = "A" -> <<65>>
      [] s = "ACAD" -> <<65, 67, 65, 68>>
      [] s = "{ACAD" -> <<123, 65, 67, 65, 68>>
      [] s = "{X" -> <<123, 88>>
      [] s = "}" -> <<125>>
      [] s = "abc" -> <<97, 98, 99>>

RECURSIVE lex_lt(_, _)
lex_lt(a, b) ==
    IF b = <<>> THEN FALSE
    ELSE IF a = <<>> THEN TRUE
    ELSE IF Head(a) # Head(b) THEN Head(a) < Head(b)
    ELSE lex_lt(Tail(a), Tail(b))

str_lt(a, b) == lex_lt(CodePoints(a), CodePoints(b))

Range(s) == {s[k] : k \in 1..Len(s)}

(* list(x) left as it is: no sorting *)
unsorted(s) == s

(* sorted(iterable): insertion of each element into the sorted rest *)
RECURSIVE sorted(_)
sorted(s) ==
    IF s = <<>> THEN <<>>
    ELSE LET x == Head(s)
             t == sorted(Tail(s))
         IN SelectSeq(t, LAMBDA y : ~str_lt(x, y)) \o <<x>>
            \o SelectSeq(t, LAMBDA y : str_lt(x, y))

(* set(iterable): the distinct elements, kept here in the order in which the
   set iterates over them (first insertion) *)
RECURSIVE pyset(_)
pyset(s) ==
    IF s = <<>> THEN <<>>
    ELSE LET t == pyset(SubSeq(s, 1, Len(s) - 1))
             x == s[Len(s)]
         IN IF x \in Range(t) THEN t ELSE Append(t, x)

-----------------------------------------------------------------------------
(* Reactors: self.reactors is a set of handle strings *)

(* An optional handle list: None, or an iterable of handles *)
NoHandles == [none |-> TRUE, items |-> <<>>]
SomeHandles(h) == [none |-> FALSE, items |-> h]

(* Reactors.set(handles): set(handles or []) *)
RX_set(handles) == IF handles.none THEN <<>> ELSE pyset(handles.items)

(* Reactors.__init__(handles) *)
Reactors(handles) == RX_set(handles)

(* An add that keeps a list: the handle is appended every time *)
RX_add_list(self, handle) == Append(self, handle)

(* Reactors.add(handle) *)
RX_add(self, handle) == IF handle \in Range(self) THEN self ELSE Append(self, handle)

(* Reactors.discard(handle) *)
RX_discard(self, handle) == SelectSeq(self, LAMBDA h : h # handle)

(* Reactors.__len__() *)
RX_len(self) == Len(self)

(* Reactors.__contains__(handle) *)
RX_contains(self, handle) == handle \in Range(self)

(* Reactors.get() *)
RX_get(self) == sorted(self)

(* An export_dxf that leaves the close marker out *)
RX_export_dxf_noclose(self) ==
    LET hs == RX_get(self)
    IN <<dxftag(APP_DATA_MARKER, ACAD_REACTORS)>>
       \o [k \in 1..Len(hs) |-> dxftag(REACTOR_HANDLE_CODE, hs[k])]

(* Reactors.export_dxf(tagwriter): the tags written *)
RX_export_dxf(self) ==
    LET hs == RX_get(self)
    IN <<dxftag(APP_DATA_MARKER, ACAD_REACTORS)>>
       \o [k \in 1..Len(hs) |-> dxftag(REACTOR_HANDLE_CODE, hs[k])]
       \o <<dxftag(APP_DATA_MARKER, "}")>>

(* A from_tags that takes every tag after the first for a handle *)
RX_from_tags_off(in) ==
    IF in.none
    THEN [err |-> "", made |-> TRUE, rx |-> Reactors(NoHandles)]
    ELSE IF Len(in.tags) < 2
         THEN [err |-> "DXFStructureError", made |-> FALSE, rx |-> <<>>]
         ELSE [err |-> "", made |-> TRUE,
               rx |-> Reactors(SomeHandles(
                        [k \in 1..(Len(in.tags) - 1) |-> in.tags[k + 1].value]))]

(* A from_tags that accepts a group of the two markers alone *)
RX_from_tags_two(in) ==
    IF in.none
    THEN [err |-> "", made |-> TRUE, rx |-> Reactors(NoHandles)]
    ELSE IF Len(in.tags) < 2
         THEN [err |-> "DXFStructureError", made |-> FALSE, rx |-> <<>>]
         ELSE [err |-> "", made |-> TRUE,
               rx |-> Reactors(SomeHandles(
                        [k \in 1..(Len(in.tags) - 2) |-> in.tags[k + 1].value]))]

(* Reactors.from_tags(tags) *)
RX_from_tags(in) ==
    IF in.none
    THEN [err |-> "", made |-> TRUE, rx |-> Reactors(NoHandles)]
    ELSE IF Len(in.tags) < 3
         THEN [err |-> "DXFStructureError", made |-> FALSE, rx |-> <<>>]
         ELSE [err |-> "", made |-> TRUE,
               rx |-> Reactors(SomeHandles(
                        [k \in 1..(Len(in.tags) - 2) |-> in.tags[k + 1].value]))]

-----------------------------------------------------------------------------
(* AppData: self.data is an OrderedDict from appid to a tag group, kept here
   as the sequence of its items [key, tags] in insertion order *)

(* uniform_appid(appid): the appid with its leading "{" *)
uniform_appid(appid) ==
    IF CodePoints(appid)[1] = 123 THEN appid ELSE "{" \o appid

od_keys(data) == {data[k].key : k \in 1..Len(data)}

od_index(data, key) == CHOOSE k \in 1..Len(data) : data[k].key = key

(* OrderedDict.__getitem__ for a key that is present *)
od_get(data, key) == data[od_index(data, key)].tags

(* A __setitem__ that moves a known key to the end *)
od_set_move(data, key, value) ==
    Append(SelectSeq(data, LAMBDA e : e.key # key), [key |-> key, tags |-> value])

(* OrderedDict.__setitem__: a known key keeps its place, a new one goes last *)
od_set(data, key, value) ==
    IF key \in od_keys(data)
    THEN [data EXCEPT ![od_index(data, key)].tags = value]
    ELSE Append(data, [key |-> key, tags |-> value])

(* OrderedDict.__delitem__ *)
od_del(data, key) == SelectSeq(data, LAMBDA e : e.key # key)

(* AppData.__contains__(appid) *)
AD_contains(data, appid) == uniform_appid(appid) \in od_keys(data)

(* AppData.__len__() *)
AD_len(data) == Len(data)

(* AppData.get(appid) *)
AD_get(data, appid) ==
    IF uniform_appid(appid) \in od_keys(data)
    THEN [err |-> "", tags |-> od_get(data, uniform_appid(appid))]
    ELSE [err |-> "DXFKeyError", tags |-> <<>>]

(* AppData.set(tags) *)
AD_set(data, tags) ==
    IF Len(tags) # 0 THEN od_set(data, tags[1].value, tags) ELSE data

(* Tags(dxftag(code, value) for code, value in data) *)
Tags(pairs) == [k \in 1..Len(pairs) |-> dxftag(pairs[k][1], pairs[k][2])]

(* AppData.add(appid, data): data[0] raises IndexError on an empty list *)
AD_add(data, appid, pairs) ==
    LET d0 == Tags(pairs)
        id == uniform_appid(appid)
    IN IF Len(d0) = 0
       THEN [err |-> "IndexError", data |-> data]
       ELSE LET d1 == IF d0[1] # dxftag(APP_DATA_MARKER, id)
                      THEN <<dxftag(APP_DATA_MARKER, id)>> \o d0
                      ELSE d0
                d2 == IF d1[Len(d1)] # dxftag(APP_DATA_MARKER, "}")
                      THEN Append(d1, dxftag(APP_DATA_MARKER, "}"))
                      ELSE d1
            IN [err |-> "", data |-> AD_set(data, d2)]

(* A discard that looks the appid up as it was given *)
AD_discard_raw(data, appid) ==
    IF appid \in od_keys(data) THEN od_del(data, appid) ELSE data

(* AppData.discard(appid) *)
AD_discard(data, appid) ==
    IF uniform_appid(appid) \in od_keys(data)
    THEN od_del(data, uniform_appid(appid))
    ELSE data

(* AppData.export_dxf(tagwriter): the tags written, group after group *)
RECURSIVE AD_export_dxf(_)
AD_export_dxf(data) ==
    IF data = <<>> THEN <<>>
    ELSE Head(data).tags \o AD_export_dxf(Tail(data))

-----------------------------------------------------------------------------
(* The ExtensionDict specification: instances living in one document *)

(* Handles found in the 360 tag of a loaded entity: "A0" is in the entity
   database from the start, "A1" is not until the document hands it out,
   "FF" never is *)
FileHandles == {"A0", "A1", "FF"}

XGroup(h) ==
    SomeTags(<<dxftag(APP_DATA_MARKER, ACAD_XDICTIONARY),
               dxftag(XDICT_HANDLE_CODE, h),
               dxftag(APP_DATA_MARKER, "}")>>)

(* The groups the loader hands to from_tags *)
XdLoadGroups ==
    {NoTags} \cup {XGroup(h) : h \in FileHandles}
    \cup {SomeTags(<<dxftag(APP_DATA_MARKER, ACAD_XDICTIONARY),
                     dxftag(APP_DATA_MARKER, "}")>>)}

XCall(op, self, pre, ret, err, lookups, news, out) ==
    [op |-> op, self |-> self, pre |-> pre, ret |-> ret, err |-> err,
     lookups |-> lookups, news |-> news, out |-> out]

XIdle == XCall("", 0, XNone, 0, "", 0, 0, <<>>)

(* What is remembered of an instance: the state it was constructed in,
   whether it was constructed without owner, the dictionaries it created,
   the lookups it made, the first object its get() returned *)
XHist(x) == [init |-> XState(x), orphan |-> (x.owner = NoOwner), news |-> 0,
             lookups |-> 0, first |-> 0]

(* The other components do not move *)
XdFrame == UNCHANGED <<appdata, acall, reactors, rcall, ft>>

(* x = ExtensionDict.from_tags(entity, tags) *)
XdFromTags(e, in) ==
    /\ Len(xds) < MaxInst
    /\ LET r == XD_from_tags(e, in)
       IN IF r.err # ""
          THEN /\ xcall' = XCall("from_tags", 0, XNone, 0, r.err, 0, 0, <<>>)
               /\ UNCHANGED <<xds, xhist>>
          ELSE /\ xds' = Append(xds, r.inst)
               /\ xhist' = Append(xhist, XHist(r.inst))
               /\ xcall' = XCall("from_tags", Len(xds) + 1, XNone, 0, "", 0, 0, <<>>)
    /\ UNCHANGED <<dicts, entitydb>>
    /\ XdFrame

(* xds[i].get() *)
XdGet(i) ==
    /\ xds[i].xdict.tag = "str" /\ xds[i].owner # NoOwner
         => xhist[i].lookups < MaxLookups
    /\ xds[i].xdict.tag = "None" /\ xds[i].owner # NoOwner => Len(dicts) < MaxDicts
    /\ LET r == XD_get(xds[i], dicts, entitydb)
       IN /\ xds' = [xds EXCEPT ![i].xdict = r.xdict]
          /\ dicts' = r.heap
          /\ entitydb' = r.db
          /\ xhist' = [xhist EXCEPT ![i].news = @ + r.news,
                                    ![i].lookups = @ + r.lookups,
                                    ![i].first = IF @ = 0 THEN r.ret ELSE @]
          /\ xcall' = XCall("get", i, xds[i].xdict, r.ret, r.err, r.lookups,
                            r.news, <<>>)
    /\ XdFrame

(* xds[i].export_dxf(tagwriter) *)
XdExport(i) ==
    /\ xcall' = XCall("export_dxf", i, xds[i].xdict, 0, "", 0, 0,
                      XD_export_dxf(xds[i], dicts))
    /\ UNCHANGED <<xds, xhist, dicts, entitydb>>
    /\ XdFrame

(* y = xds[i].clone() *)
XdClone(i) ==
    /\ Len(xds) < MaxInst
    /\ xds[i].xdict.tag = "obj" => Len(dicts) < MaxDicts
    /\ LET r == XD_clone(xds[i], dicts)
       IN /\ xds' = Append(xds, r.inst)
          /\ xhist' = Append(xhist, XHist(r.inst))
          /\ dicts' = r.heap
          /\ xcall' = XCall("clone", i, xds[i].xdict, 0, "", 0, 0, <<>>)
    /\ UNCHANGED entitydb
    /\ XdFrame

(* The caller that cloned the entity attaches the copy to its new owner *)
XdSetOwner(i, e) ==
    /\ xds[i].owner = NoOwner
    /\ xds' = [xds EXCEPT ![i].owner = e]
    /\ xcall' = XCall("set_owner", i, xds[i].xdict, 0, "", 0, 0, <<>>)
    /\ UNCHANGED <<xhist, dicts, entitydb>>
    /\ XdFrame

(* The caller stores an entry in the dictionary that instance i holds *)
XdModifyDict(i) ==
    /\ xds[i].xdict.tag = "obj"
    /\ dicts[xds[i].xdict.ref].data = 0
    /\ dicts' = [dicts EXCEPT ![xds[i].xdict.ref].data = 1]
    /\ xcall' = XCall("modify", i, xds[i].xdict, 0, "", 0, 0, <<>>)
    /\ UNCHANGED <<xds, xhist, entitydb>>
    /\ XdFrame

XdNext ==
    \/ \E e \in Entities, in \in XdLoadGroups : XdFromTags(e, in)
    \/ \E i \in 1..Len(xds) : XdGet(i)
    \/ \E i \in 1..Len(xds) : XdExport(i)
    \/ \E i \in 1..Len(xds) : XdClone(i)
    \/ \E i \in 1..Len(xds), e \in Entities : XdSetOwner(i, e)
    \/ \E i \in 1..Len(xds) : XdModifyDict(i)

ACall(op, appid, tags, pairs, pre, err, ret, b) ==
    [op |-> op, appid |-> appid, tags |-> tags, pairs |-> pairs, pre |-> pre,
     err |-> err, ret |-> ret, b |-> b]

ADIdle == ACall("", "", <<>>, <<>>, <<>>, "", <<>>, FALSE)

RCall(op, h, in, pre, err, out) ==
    [op |-> op, h |-> h, in |-> in, pre |-> pre, err |-> err, out |-> out]

RXIdle == RCall("", "", NoHandles, <<>>, "", <<>>)

FTCall(in, op, err, made, xd, rx) ==
    [in |-> in, op |-> op, err |-> err, made |-> made, xd |-> xd, rx |-> rx]

FTIdle == FTCall(NoTags, "", "", FALSE, NoInst, <<>>)

InitXD ==
    /\ xds = <<>>
    /\ xhist = <<>>
    /\ dicts = <<[handle |-> "A0", owner |-> "10", data |-> 0]>>
    /\ entitydb = ("A0" :> 1)
    /\ xcall = XIdle
    /\ appdata = <<>>
    /\ acall = ADIdle
    /\ reactors = <<>>
    /\ rcall = RXIdle
    /\ ft = FTIdle

SpecXD == InitXD /\ [][XdNext]_vars

-----------------------------------------------------------------------------
(* The Reactors specification: one Reactors object and the calls made on it *)

RxHandles == {"1", "10", "2", "A"}

(* What the callers hand to Reactors(...) and Reactors.set(...) *)
RxInputs == {NoHandles} \cup {SomeHandles(h) : h \in SeqUpTo(RxHandles, MaxHandles)}

(* A reactors group as the loader cuts it out of an entity's tags *)
RGroup(hs) ==
    SomeTags(<<dxftag(APP_DATA_MARKER, ACAD_REACTORS)>>
             \o [k \in 1..Len(hs) |-> dxftag(REACTOR_HANDLE_CODE, hs[k])]
             \o <<dxftag(APP_DATA_MARKER, "}")>>)

RxLoadGroups == {NoTags} \cup {RGroup(h) : h \in SeqUpTo(RxHandles, MaxHandles)}

RxFrame == UNCHANGED <<xds, xhist, dicts, entitydb, xcall, appdata, acall, ft>>

(* r.set(handles) *)
RxSet(in) ==
    /\ reactors' = RX_set(in)
    /\ rcall' = RCall("set", "", in, <<>>, "", <<>>)
    /\ RxFrame

(* r.add(handle) *)
RxAdd(h) ==
    /\ reactors' = RX_add(reactors, h)
    /\ rcall' = RCall("add", h, NoHandles, reactors, "", <<>>)
    /\ RxFrame

(* r.discard(handle) *)
RxDiscard(h) ==
    /\ reactors' = RX_discard(reactors, h)
    /\ rcall' = RCall("discard", h, NoHandles, reactors, "", <<>>)
    /\ RxFrame

(* r.export_dxf(tagwriter) *)
RxExport ==
    /\ rcall' = RCall("export_dxf", "", NoHandles, reactors, "", RX_export_dxf(reactors))
    /\ UNCHANGED reactors
    /\ RxFrame

(* r = Reactors.from_tags(the tags r.export_dxf wrote): the group is written,
   read back as one tag group, and parsed; r keeps its old value when the
   parser raises *)
RxRoundTrip ==
    /\ LET written == RX_export_dxf(reactors)
           r == RX_from_tags(SomeTags(written))
       IN /\ reactors' = IF r.made THEN r.rx ELSE reactors
          /\ rcall' = RCall("round_trip", "", NoHandles, reactors, r.err, written)
    /\ RxFrame

(* r = Reactors.from_tags(tags): r keeps its old value when the call raises *)
RxFromTags(in) ==
    /\ LET r == RX_from_tags(in)
       IN /\ reactors' = IF r.made THEN r.rx ELSE reactors
          /\ rcall' = RCall("from_tags", "", NoHandles, <<>>, r.err, in.tags)
    /\ RxFrame

RxNext ==
    \/ \E in \in RxInputs : RxSet(in)
    \/ \E h \in RxHandles : RxAdd(h)
    \/ \E h \in RxHandles : RxDiscard(h)
    \/ RxExport
    \/ RxRoundTrip
    \/ \E in \in RxLoadGroups : RxFromTags(in)

InitRX ==
    /\ \E in \in RxInputs :
         /\ reactors = Reactors(in)
         /\ rcall = RCall("__init__", "", in, <<>>, "", <<>>)
    /\ xds = <<>>
    /\ xhist = <<>>
    /\ dicts = <<[handle |-> "A0", owner |-> "10", data |-> 0]>>
    /\ entitydb = ("A0" :> 1)
    /\ xcall = XIdle
    /\ appdata = <<>>
    /\ acall = ADIdle
    /\ ft = FTIdle

SpecRX == InitRX /\ [][RxNext]_vars

-----------------------------------------------------------------------------
(* The from_tags specification: both parsers applied to arbitrary groups *)

FtTags ==
    {dxftag(APP_DATA_MARKER, ACAD_REACTORS),
     dxftag(APP_DATA_MARKER, ACAD_XDICTIONARY),
     dxftag(APP_DATA_MARKER, "}"),
     dxftag(REACTOR_HANDLE_CODE, "1"),
     dxftag(REACTOR_HANDLE_CODE, "2"),
     dxftag(XDICT_HANDLE_CODE, "A0")}

FtInputs == {NoTags} \cup {SomeTags(t) : t \in SeqUpTo(FtTags, MaxTags)}

FtFrame ==
    UNCHANGED <<xds, xhist, dicts, entitydb, xcall, appdata, acall, reactors, rcall>>

(* Reactors.from_tags(tags) *)
FtReactors ==
    /\ ft.op = ""
    /\ LET r == RX_from_tags(ft.in)
       IN ft' = FTCall(ft.in, "Reactors.from_tags", r.err, r.made, NoInst, r.rx)
    /\ FtFrame

(* ExtensionDict.from_tags(entity, tags) *)
FtExtensionDict(e) ==
    /\ ft.op = ""
    /\ LET r == XD_from_tags(e, ft.in)
       IN ft' = FTCall(ft.in, "ExtensionDict.from_tags", r.err, r.err = "",
                       r.inst, <<>>)
    /\ FtFrame

FtNext ==
    \/ FtReactors
    \/ \E e \in Entities : FtExtensionDict(e)

InitFT ==
    /\ \E in \in FtInputs : ft = FTCall(in, "", "", FALSE, NoInst, <<>>)
    /\ xds = <<>>
    /\ xhist = <<>>
    /\ dicts = <<[handle |-> "A0", owner |-> "10", data |-> 0]>>
    /\ entitydb = ("A0" :> 1)
    /\ xcall = XIdle
    /\ appdata = <<>>
    /\ acall = ADIdle
    /\ reactors = <<>>
    /\ rcall = RXIdle

SpecFT == InitFT /\ [][FtNext]_vars

-----------------------------------------------------------------------------
(* The AppData specification: one store and the calls made on it *)

AppIds == {"ACAD", "{ACAD", "{X"}

(* The groups handed to set(): well-formed ones as the loader cuts them out
   of an entity's tags, the empty one, and groups that lack a marker *)
AdGroups ==
    {<<>>,
     <<dxftag(APP_DATA_MARKER, "{ACAD"), dxftag(APP_DATA_MARKER, "}")>>,
     <<dxftag(APP_DATA_MARKER, "{ACAD"), dxftag(1, "abc"),
       dxftag(APP_DATA_MARKER, "}")>>,
     <<dxftag(APP_DATA_MARKER, "{X"), dxftag(APP_DATA_MARKER, "}")>>,
     <<dxftag(APP_DATA_MARKER, "{X"), dxftag(1, "abc")>>,
     <<dxftag(APP_DATA_MARKER, "ACAD"), dxftag(APP_DATA_MARKER, "}")>>,
     <<dxftag(1, "abc")>>,
     <<dxftag(1, "abc"), dxftag(APP_DATA_MARKER, "}")>>}

(* The pairs handed to add() *)

AdPairs ==
    {<<>>,
     <<<<1, "abc">>>>,
     <<<<APP_DATA_MARKER, "}">>>>,
     <<<<APP_DATA_MARKER, "{ACAD">>>>,
     <<<<1, "abc">>, <<APP_DATA_MARKER, "}">>>>,
     <<<<APP_DATA_MARKER, "{ACAD">>, <<1, "abc">>>>,
     <<<<APP_DATA_MARKER, "ACAD">>, <<1, "abc">>>>,
     <<<<APP_DATA_MARKER, "{ACAD">>, <<1, "abc">>, <<APP_DATA_MARKER, "}">>>>}

AdFrame == UNCHANGED <<xds, xhist, dicts, entitydb, xcall, reactors, rcall, ft>>

(* a.set(tags) *)
AdSet(tags) ==
    /\ Len(AD_set(appdata, tags)) <= MaxGroups
    /\ appdata' = AD_set(appdata, tags)
    /\ acall' = ACall("set", "", tags, <<>>, appdata, "", <<>>, FALSE)
    /\ AdFrame

(* a.add(appid, data) *)
AdAdd(appid, pairs) ==
    /\ LET r == AD_add(appdata, appid, pairs)
       IN /\ Len(r.data) <= MaxGroups
          /\ appdata' = r.data
          /\ acall' = ACall("add", appid, <<>>, pairs, appdata, r.err, <<>>, FALSE)
    /\ AdFrame

(* a.discard(appid) *)
AdDiscard(appid) ==
    /\ appdata' = AD_discard(appdata, appid)
    /\ acall' = ACall("discard", appid, <<>>, <<>>, appdata, "", <<>>, FALSE)
    /\ AdFrame

(* a.get(appid) *)
AdGet(appid) ==
    /\ LET r == AD_get(appdata, appid)
       IN acall' = ACall("get", appid, <<>>, <<>>, appdata, r.err, r.tags, FALSE)
    /\ UNCHANGED appdata
    /\ AdFrame

(* appid in a *)
AdContains(appid) ==
    /\ acall' = ACall("contains", appid, <<>>, <<>>, appdata, "", <<>>,
                      AD_contains(appdata, appid))
    /\ UNCHANGED appdata
    /\ AdFrame

(* a.export_dxf(tagwriter) *)
AdExport ==
    /\ acall' = ACall("export_dxf", "", <<>>, <<>>, appdata, "",
                      AD_export_dxf(appdata), FALSE)
    /\ UNCHANGED appdata
    /\ AdFrame

AdNext ==
    \/ \E tags \in AdGroups : AdSet(tags)
    \/ \E appid \in AppIds, pairs \in AdPairs : AdAdd(appid, pairs)
    \/ \E appid \in AppIds : AdDiscard(appid)
    \/ \E appid \in AppIds : AdGet(appid)
    \/ \E appid \in AppIds : AdContains(appid)
    \/ AdExport

InitAD ==
    /\ appdata = <<>>
    /\ acall = ADIdle
    /\ xds = <<>>
    /\ xhist = <<>>
    /\ dicts = <<[handle |-> "A0", owner |-> "10", data |-> 0]>>
    /\ entitydb = ("A0" :> 1)
    /\ xcall = XIdle
    /\ reactors = <<>>
    /\ rcall = RXIdle
    /\ ft = FTIdle

SpecAD == InitAD /\ [][AdNext]_vars

(* The AppData specification of a store that is changed through add and
   discard alone: set is never called by the owner *)
AdNextAddDiscard ==
    \/ \E appid \in AppIds, pairs \in AdPairs : AdAdd(appid, pairs)
    \/ \E appid \in AppIds : AdDiscard(appid)
    \/ \E appid \in AppIds : AdGet(appid)
    \/ \E appid \in AppIds : AdContains(appid)
    \/ AdExport

SpecADAddDiscard == InitAD /\ [][AdNextAddDiscard]_vars

-----------------------------------------------------------------------------
(* Properties of ExtensionDict, checked under SpecXD *)

(* C1: Resolved is terminal. In every step an instance changes state only
   from Absent or Unresolved to Resolved, only in a successful get() on that
   instance; a Resolved instance keeps the very dictionary it holds, and an
   Unresolved instance never becomes Absent. *)
C1_ResolvedTerminal ==
    [][\A i \in 1..Len(xds) :
         /\ XState(xds'[i]) # XState(xds[i]) =>
              /\ XState(xds[i]) \in {"Absent", "Unresolved"}
              /\ XState(xds'[i]) = "Resolved"
              /\ xcall'.op = "get" /\ xcall'.self = i /\ xcall'.err = ""
         /\ XState(xds[i]) = "Resolved" => xds'[i].xdict = xds[i].xdict
         /\ XState(xds[i]) = "Unresolved" => XState(xds'[i]) # "Absent"]_vars

(* C1 witness: an instance loaded Unresolved and resolved by get() is still
   Resolved after a later get() on it *)
C1_Witness ==
    \E i \in 1..Len(xds) :
        /\ xhist[i].init = "Unresolved"
        /\ xhist[i].lookups = 1
        /\ XState(xds[i]) = "Resolved"
        /\ xcall.op = "get" /\ xcall.self = i /\ xcall.pre.tag = "obj"

(* C2: an instance built Absent (and attached to an owner) calls
   add_dictionary exactly once, in its first successful get(), with the
   owner's handle; every successful get() returns the object the first one
   returned; an instance built from a handle never calls add_dictionary. *)
C2_CreateOnce ==
    /\ \A i \in 1..Len(xds) :
         /\ xhist[i].init = "Absent" =>
              /\ xhist[i].news <= 1
              /\ xhist[i].first # 0 <=> xhist[i].news = 1
              /\ xhist[i].news = 1 =>
                   /\ xds[i].xdict = XObj(xhist[i].first)
                   /\ dicts[xhist[i].first].owner = OwnerHandle(xds[i].owner)
         /\ xhist[i].init # "Absent" => xhist[i].news = 0
    /\ xcall.op = "get" /\ xcall.err = "" =>
         /\ xcall.ret = xhist[xcall.self].first
         /\ xhist[xcall.self].init = "Absent" =>
              xcall.news = (IF xcall.pre.tag = "None" THEN 1 ELSE 0)

(* C2 witness: an Absent-built instance after a get() that found it Resolved *)
C2_Witness ==
    /\ xcall.op = "get" /\ xcall.err = ""
    /\ xhist[xcall.self].init = "Absent"
    /\ xcall.pre.tag = "obj"
    /\ xhist[xcall.self].news = 1
    /\ xds[xcall.self].owner # NoOwner

(* C3: a successful get() on an Unresolved instance makes exactly one
   entity-database lookup of the stored handle and stores what it found; a
   get() on a Resolved instance makes no lookup and returns the cached
   object; an instance whose handle was in the database from the start has
   made exactly one lookup in all once it is Resolved. *)
C3_LookupOnce ==
    /\ xcall.op = "get" /\ xcall.pre.tag = "str" /\ xcall.err = "" =>
         /\ xcall.lookups = 1
         /\ xcall.pre.str \in DOMAIN entitydb
         /\ xcall.ret = entitydb[xcall.pre.str]
         /\ xds[xcall.self].xdict = XObj(xcall.ret)
    /\ xcall.op = "get" /\ xcall.pre.tag = "obj" =>
         /\ xcall.lookups = 0
         /\ xcall.err = ""
         /\ xcall.ret = xcall.pre.ref
         /\ xds[xcall.self].xdict = xcall.pre
    /\ \A i \in 1..Len(xds) :
         /\ xhist[i].init = "Unresolved"
         /\ XState(xds[i]) = "Resolved"
         /\ dicts[xds[i].xdict.ref].handle = "A0"
         => xhist[i].lookups = 1 /\ xhist[i].first = xds[i].xdict.ref

(* C3 witness: the second get() on an instance loaded from the group
   (102 {ACAD_XDICTIONARY) (360 A0) (102 }) *)
C3_Witness ==
    /\ xcall.op = "get" /\ xcall.pre.tag = "obj"
    /\ xhist[xcall.self].init = "Unresolved"
    /\ xhist[xcall.self].lookups = 1
    /\ dicts[xcall.ret].handle = "A0"

(* C4: get() on an owned Unresolved instance whose handle is not in the
   entity database fails with NotFound, returns nothing, leaves the instance
   Unresolved with the same handle, and export_dxf then still writes that
   handle. *)
C4_DanglingHandle ==
    /\ xcall.op = "get" /\ xcall.pre.tag = "str"
       /\ xds[xcall.self].owner # NoOwner
       /\ xcall.pre.str \notin DOMAIN entitydb
       => /\ xcall.err = "NotFound"
          /\ xcall.ret = 0
          /\ xds[xcall.self].xdict = xcall.pre
          /\ XD_export_dxf(xds[xcall.self], dicts)[2]
               = dxftag(XDICT_HANDLE_CODE, xcall.pre.str)
    /\ \A i \in 1..Len(xds) :
         xhist[i].init = "Unresolved" /\ xhist[i].first = 0
         => XState(xds[i]) = "Unresolved"
    /\ xcall.op = "export_dxf" /\ xcall.pre.tag = "str" =>
         xcall.out[2] = dxftag(XDICT_HANDLE_CODE, xcall.pre.str)

(* C4 witness: export_dxf writes the dangling handle FF after a get() on
   the instance has failed *)
C4_Witness ==
    /\ xcall.op = "export_dxf"
    /\ xhist[xcall.self].lookups >= 1
    /\ XState(xds[xcall.self]) = "Unresolved"
    /\ xcall.out = <<dxftag(APP_DATA_MARKER, ACAD_XDICTIONARY),
                     dxftag(XDICT_HANDLE_CODE, "FF"),
                     dxftag(APP_DATA_MARKER, "}")>>

(* C12: clone() in any state appends a new instance whose owner is unset
   and leaves the original, every other instance, the dictionaries and the
   entity database as they were; the clone of an Absent instance is Absent,
   of an Unresolved one Unresolved with the same handle string, of a Resolved
   one Resolved with a copy of the dictionary that is another object: no
   other instance holds it, so a later change made through one instance is
   not seen through the other. *)
C12_CloneFrame ==
    /\ [](xcall.op = "clone" =>
            LET c == xds[Len(xds)]
                o == xds[xcall.self]
            IN /\ xcall.self < Len(xds)
               /\ xcall.err = ""
               /\ c.owner = NoOwner
               /\ o.xdict = xcall.pre
               /\ XState(c) = XState(o)
               /\ xcall.pre.tag \in {"None", "str"} => c.xdict = xcall.pre
               /\ xcall.pre.tag = "obj" =>
                     /\ c.xdict.ref # xcall.pre.ref
                     /\ dicts[c.xdict.ref] = dicts[xcall.pre.ref])
    /\ [](\A i, j \in 1..Len(xds) :
            /\ i # j
            /\ xhist[j].init = "Resolved"
            /\ xds[i].xdict.tag = "obj"
            => xds[i].xdict.ref # xds[j].xdict.ref)
    /\ [][xcall'.op = "clone" =>
            /\ Len(xds') = Len(xds) + 1
            /\ \A i \in 1..Len(xds) : xds'[i] = xds[i]
            /\ Len(dicts') = Len(dicts) + (IF xcall'.pre.tag = "obj" THEN 1 ELSE 0)
            /\ \A d \in 1..Len(dicts) : dicts'[d] = dicts[d]
            /\ entitydb' = entitydb]_vars

(* C12 witness: instance 2 was cloned from the Resolved instance 1, and an
   entry stored since through instance 1 is not in the dictionary of
   instance 2 *)
C12_Witness ==
    /\ Len(xds) = 2
    /\ xhist[2].init = "Resolved"
    /\ xds[2].owner = NoOwner
    /\ xds[1].xdict.tag = "obj"
    /\ dicts[xds[1].xdict.ref].data = 1
    /\ dicts[xds[2].xdict.ref].data = 0

(* C13: export_dxf changes nothing, looks nothing up and creates nothing;
   it writes no tag for an Absent instance, and otherwise exactly
   (102, {ACAD_XDICTIONARY), (360, h), (102, }) where h is the stored handle
   string of an Unresolved instance and the handle of the held dictionary of
   a Resolved one. *)
C13_ExportObserver ==
    /\ [](xcall.op = "export_dxf" =>
            LET x == xds[xcall.self]
                group(h) == <<dxftag(APP_DATA_MARKER, ACAD_XDICTIONARY),
                              dxftag(XDICT_HANDLE_CODE, h),
                              dxftag(APP_DATA_MARKER, "}")>>
            IN /\ xcall.err = ""
               /\ xcall.lookups = 0
               /\ xcall.news = 0
               /\ x.xdict = xcall.pre
               /\ XState(x) = "Absent" => xcall.out = <<>>
               /\ XState(x) = "Unresolved" => xcall.out = group(x.xdict.str)
               /\ XState(x) = "Resolved" =>
                     xcall.out = group(dicts[x.xdict.ref].handle))
    /\ [][xcall'.op = "export_dxf" =>
            UNCHANGED <<xds, xhist, dicts, entitydb>>]_vars

(* C13 witness: a Resolved instance holding the dictionary it created wrote
   that dictionary's handle *)
C13_Witness ==
    /\ xcall.op = "export_dxf"
    /\ XState(xds[xcall.self]) = "Resolved"
    /\ xhist[xcall.self].news = 1
    /\ xcall.out = <<dxftag(APP_DATA_MARKER, ACAD_XDICTIONARY),
                     dxftag(XDICT_HANDLE_CODE, "A1"),
                     dxftag(APP_DATA_MARKER, "}")>>

(* C20: on an instance without owner, get() in Absent or Unresolved raises,
   creates no dictionary, makes no lookup and changes nothing; in Resolved it
   returns the held dictionary and changes nothing.  Once an owner is
   attached to an instance constructed without one, get() does what it does
   on an instance constructed with that owner: Absent creates one dictionary
   owned by the owner's handle, Unresolved makes one lookup and stores the
   dictionary found, or raises and stays if the handle is unknown. *)
C20_OwnerlessGet ==
    /\ [](xcall.op = "get" /\ xds[xcall.self].owner = NoOwner =>
            /\ xcall.lookups = 0
            /\ xcall.news = 0
            /\ xds[xcall.self].xdict = xcall.pre
            /\ xcall.pre.tag \in {"None", "str"} =>
                  xcall.err = "AttributeError" /\ xcall.ret = 0
            /\ xcall.pre.tag = "obj" =>
                  xcall.err = "" /\ xcall.ret = xcall.pre.ref)
    /\ [](xcall.op = "get" /\ xhist[xcall.self].orphan
            /\ xds[xcall.self].owner # NoOwner =>
            LET x == xds[xcall.self]
            IN /\ xcall.pre.tag = "None" =>
                     /\ xcall.err = "" /\ xcall.news = 1 /\ xcall.lookups = 0
                     /\ x.xdict = XObj(xcall.ret)
                     /\ xcall.ret = Len(dicts)
                     /\ dicts[xcall.ret].owner = OwnerHandle(x.owner)
               /\ xcall.pre.tag = "str" =>
                     /\ xcall.news = 0 /\ xcall.lookups = 1
                     /\ IF xcall.pre.str \in DOMAIN entitydb
                        THEN /\ xcall.err = ""
                             /\ xcall.ret = entitydb[xcall.pre.str]
                             /\ x.xdict = XObj(xcall.ret)
                        ELSE /\ xcall.err = "NotFound"
                             /\ x.xdict = xcall.pre
               /\ xcall.pre.tag = "obj" =>
                     /\ xcall.err = "" /\ xcall.news = 0 /\ xcall.lookups = 0
                     /\ xcall.ret = xcall.pre.ref /\ x.xdict = xcall.pre)
    /\ [][xcall'.op = "get" /\ xds[xcall'.self].owner = NoOwner =>
            UNCHANGED <<xds, dicts, entitydb>>]_vars

(* C20 witness: an Absent instance constructed without owner has been given
   an owner, and its get() has created the dictionary *)
C20_Witness ==
    /\ xcall.op = "get"
    /\ xhist[xcall.self].orphan
    /\ xhist[xcall.self].init = "Absent"
    /\ xds[xcall.self].owner # NoOwner
    /\ xcall.news = 1
    /\ XState(xds[xcall.self]) = "Resolved"

-----------------------------------------------------------------------------
(* Properties of the from_tags parsers, checked under SpecFT *)

(* C7: ExtensionDict.from_tags gives an Absent instance for None, an
   Unresolved instance holding tags[1].value for a group of exactly 3 tags
   whose second tag has code 360, and fails with DXFStructureError, making
   no instance, for every other group. *)
C7_XdFromTags ==
    ft.op = "ExtensionDict.from_tags" =>
        LET t == ft.in.tags
            shaped == Len(t) = 3 /\ t[2].code = XDICT_HANDLE_CODE
        IN /\ ft.in.none =>
                /\ ft.err = "" /\ ft.made
                /\ ft.xd.xdict = XNone /\ XState(ft.xd) = "Absent"
                /\ ft.xd.owner \in Entities
           /\ ~ft.in.none /\ shaped =>
                /\ ft.err = "" /\ ft.made
                /\ ft.xd.xdict = XStr(t[2].value) /\ XState(ft.xd) = "Unresolved"
                /\ ft.xd.owner \in Entities
           /\ ~ft.in.none /\ ~shaped =>
                ft.err = "DXFStructureError" /\ ~ft.made

(* C7 witness: a 4-tag group whose second tag has code 360 is rejected *)
C7_Witness ==
    /\ ft.op = "ExtensionDict.from_tags"
    /\ ~ft.in.none /\ Len(ft.in.tags) = 4
    /\ ft.in.tags[2].code = XDICT_HANDLE_CODE
    /\ ft.err = "DXFStructureError" /\ ~ft.made

(* C8: from_tags of Reactors and of ExtensionDict fails with
   DXFStructureError whenever the group's first tag is not the open marker
   of its kind or its last tag is not (102, "}"). *)
C8_MarkersChecked ==
    ft.op # "" /\ ~ft.in.none =>
        LET t == ft.in.tags
            open == IF ft.op = "Reactors.from_tags" THEN ACAD_REACTORS
                    ELSE ACAD_XDICTIONARY
            wellMarked == /\ Len(t) >= 2
                          /\ t[1] = dxftag(APP_DATA_MARKER, open)
                          /\ t[Len(t)] = dxftag(APP_DATA_MARKER, "}")
        IN ~wellMarked => ft.err = "DXFStructureError"

(* C9: Reactors.from_tags fails with DXFStructureError for every group of
   fewer than 3 tags; for a group of 3 or more tags it gives a Reactors
   whose handles are exactly the values of the interior tags, each once. *)
C9_RxFromTags ==
    ft.op = "Reactors.from_tags" /\ ~ft.in.none =>
        LET t == ft.in.tags
        IN /\ Len(t) < 3 => ft.err = "DXFStructureError" /\ ~ft.made
           /\ Len(t) >= 3 =>
                /\ ft.err = "" /\ ft.made
                /\ Range(ft.rx) = {t[k].value : k \in 2..(Len(t) - 1)}
                /\ RX_len(ft.rx) = Cardinality(Range(ft.rx))

(* C9 witness: a 4-tag group naming the same handle twice gives one handle *)
C9_Witness ==
    /\ ft.op = "Reactors.from_tags" /\ ~ft.in.none
    /\ Len(ft.in.tags) = 4
    /\ ft.in.tags[2] = dxftag(REACTOR_HANDLE_CODE, "2")
    /\ ft.in.tags[3] = dxftag(REACTOR_HANDLE_CODE, "2")
    /\ ft.rx = <<"2">>

-----------------------------------------------------------------------------
(* Properties of Reactors, checked under SpecRX *)

(* C10: export_dxf writes the open marker (102, {ACAD_REACTORS), then one
   (330, handle) tag for each stored handle, each handle once and in
   strictly ascending string order, then the close marker (102, }); the
   tags written are fixed by the set of handles alone, whatever the order
   in which they were inserted. *)
C10_ExportSorted ==
    rcall.op = "export_dxf" =>
        LET out == rcall.out
            n == Len(out)
        IN /\ n = Cardinality(Range(reactors)) + 2
           /\ out[1] = dxftag(APP_DATA_MARKER, ACAD_REACTORS)
           /\ out[n] = dxftag(APP_DATA_MARKER, "}")
           /\ \A k \in 2..(n - 1) : out[k].code = REACTOR_HANDLE_CODE
           /\ {out[k].value : k \in 2..(n - 1)} = Range(reactors)
           /\ \A k \in 2..(n - 2) : str_lt(out[k].value, out[k + 1].value)

(* C10 witness: handles inserted in the order 2, 10, 1 are written as
   1, 10, 2 *)
C10_Witness ==
    /\ rcall.op = "export_dxf"
    /\ reactors = <<"2", "10", "1">>
    /\ rcall.out = <<dxftag(APP_DATA_MARKER, ACAD_REACTORS),
                     dxftag(REACTOR_HANDLE_CODE, "1"),
                     dxftag(REACTOR_HANDLE_CODE, "10"),
                     dxftag(REACTOR_HANDLE_CODE, "2"),
                     dxftag(APP_DATA_MARKER, "}")>>

(* C11: for every Reactors object whose handle set is not empty, parsing
   the tags its export_dxf wrote with Reactors.from_tags raises nothing and
   yields an object holding the same set of handles, each once. *)
C11_RoundTrip ==
    (rcall.op = "round_trip" /\ rcall.pre # <<>>) =>
        /\ rcall.err = ""
        /\ rcall.out = RX_export_dxf(rcall.pre)
        /\ Range(reactors) = Range(rcall.pre)
        /\ RX_len(reactors) = Cardinality(Range(rcall.pre))

(* C11 witness: the handles 2, 10, 1 were written and read back *)
C11_Witness ==
    /\ rcall.op = "round_trip"
    /\ rcall.pre = <<"2", "10", "1">>
    /\ rcall.err = ""
    /\ Range(reactors) = {"1", "10", "2"}

(* C17: a Reactors object holding no handles writes exactly the two tags
   (102, {ACAD_REACTORS) and (102, }), and Reactors.from_tags rejects exactly
   that group with DXFStructureError, so the round trip fails for the empty
   set; a group written for a non-empty set is accepted. *)
C17_EmptyRejected ==
    /\ (rcall.op \in {"export_dxf", "round_trip"} /\ rcall.pre = <<>>) =>
          rcall.out = <<dxftag(APP_DATA_MARKER, ACAD_REACTORS),
                        dxftag(APP_DATA_MARKER, "}")>>
    /\ rcall.op = "round_trip" =>
          /\ rcall.pre = <<>> <=> rcall.err = "DXFStructureError"
          /\ rcall.pre # <<>> <=> rcall.err = ""

(* C17 witness: the object was emptied by discard, and reading back what it
   wrote was rejected *)
C17_Witness ==
    /\ rcall.op = "round_trip"
    /\ rcall.pre = <<>>
    /\ reactors = <<>>
    /\ rcall.err = "DXFStructureError"
    /\ Len(rcall.out) = 2

(* C18: Reactors is a set.  add and discard raise nothing; add(h) leaves the
   set unchanged when h is present and otherwise adds h alone; discard(h)
   leaves it unchanged when h is absent and otherwise removes h alone;
   set(handles) replaces the whole set by the distinct elements of handles,
   set(None) by the empty set; len is the number of distinct handles stored
   and the length of get(). *)
C18_SetSemantics ==
    /\ RX_len(reactors) = Cardinality(Range(reactors))
    /\ RX_len(reactors) = Len(RX_get(reactors))
    /\ \A h \in RxHandles : RX_contains(reactors, h) <=> h \in Range(reactors)
    /\ rcall.op = "add" =>
          /\ rcall.err = ""
          /\ RX_contains(reactors, rcall.h)
          /\ Range(reactors) = Range(rcall.pre) \cup {rcall.h}
          /\ rcall.h \in Range(rcall.pre) => reactors = rcall.pre
    /\ rcall.op = "discard" =>
          /\ rcall.err = ""
          /\ ~RX_contains(reactors, rcall.h)
          /\ Range(reactors) = Range(rcall.pre) \ {rcall.h}
          /\ rcall.h \notin Range(rcall.pre) => reactors = rcall.pre
    /\ rcall.op = "set" =>
          /\ rcall.err = ""
          /\ Range(reactors) = IF rcall.in.none THEN {}
                                ELSE Range(rcall.in.items)

(* C18 witness: add of a handle that was already one of two stored *)
C18_Witness ==
    /\ rcall.op = "add"
    /\ rcall.h \in Range(rcall.pre)
    /\ RX_len(rcall.pre) = 2
    /\ RX_len(reactors) = 2

-----------------------------------------------------------------------------
(* Properties of AppData, checked under SpecAD *)

(* C5: every stored group is non-empty, its first tag is the marker
   (102, k) for the key k it is stored under, and its last tag is
   (102, "}"). *)
C5_GroupsWellFormed ==
    \A k \in 1..Len(appdata) :
        LET g == appdata[k].tags
        IN /\ Len(g) # 0
           /\ g[1] = dxftag(APP_DATA_MARKER, appdata[k].key)
           /\ g[Len(g)] = dxftag(APP_DATA_MARKER, "}")

(* C6: add(a, pairs) succeeds for every appid and every sequence of pairs,
   the empty one included, and get(a) then gives a group whose first tag is
   (102, uniform_appid(a)) and whose last tag is (102, "}"). *)
C6_AddThenGet ==
    acall.op = "add" =>
        /\ acall.err = ""
        /\ AD_contains(appdata, acall.appid)
        /\ LET g == AD_get(appdata, acall.appid)
           IN /\ g.err = ""
              /\ g.tags[1] = dxftag(APP_DATA_MARKER, uniform_appid(acall.appid))
              /\ g.tags[Len(g.tags)] = dxftag(APP_DATA_MARKER, "}")

(* C14: set(g) with a zero-length group leaves the store as it was and
   raises nothing; with a non-empty group g it stores g under the key
   g[0].value, replacing what was stored under that key and leaving every
   other entry as it was, and then contains(g[0].value) is true and
   get(g[0].value) returns g. *)
C14_SetThenGet ==
    acall.op = "set" =>
        LET g == acall.tags
        IN /\ acall.err = ""
           /\ g = <<>> => appdata = acall.pre
           /\ g # <<>> =>
                 /\ g[1].value \in od_keys(appdata)
                 /\ od_get(appdata, g[1].value) = g
                 /\ od_keys(appdata) = od_keys(acall.pre) \cup {g[1].value}
                 /\ \A k \in od_keys(acall.pre) \ {g[1].value} :
                       od_get(appdata, k) = od_get(acall.pre, k)
                 /\ AD_contains(appdata, g[1].value)
                 /\ AD_get(appdata, g[1].value) = [err |-> "", tags |-> g]

(* C15: discard(a) raises nothing; afterwards contains(a) is false and
   get(a) raises DXFKeyError; when a was not stored the store is as it was,
   and in every case the entries under other ids are as they were, in the
   same order. *)
C15_Discard ==
    acall.op = "discard" =>
        LET a == acall.appid
            id == uniform_appid(a)
        IN /\ acall.err = ""
           /\ ~AD_contains(appdata, a)
           /\ AD_get(appdata, a) = [err |-> "DXFKeyError", tags |-> <<>>]
           /\ ~AD_contains(acall.pre, a) => appdata = acall.pre
           /\ od_keys(appdata) = od_keys(acall.pre) \ {id}
           /\ \A k \in od_keys(acall.pre) \ {id} :
                 od_get(appdata, k) = od_get(acall.pre, k)
           /\ AD_len(appdata) = Cardinality(od_keys(appdata))

(* C15 witness: discard("ACAD") removed the group stored under "{ACAD" and
   left the group under "{X" *)
C15_Witness ==
    /\ acall.op = "discard"
    /\ acall.appid = "ACAD"
    /\ od_keys(acall.pre) = {"{ACAD", "{X"}
    /\ od_keys(appdata) = {"{X"}

(* C16: export_dxf writes the tags of each stored group as they are, one
   group after the other, in the order in which the keys entered the store,
   writes nothing for an empty store and leaves the store as it was; a set
   or add on a key already stored keeps the key at its position, a new key
   goes to the end, and discard removes the key from the order, so that a
   later add of it puts it at the end. *)
C16_ExportOrder ==
    LET keyseq(data) == [k \in 1..Len(data) |-> data[k].key]
    IN /\ acall.op = "export_dxf" =>
            LET off[k \in 0..Len(appdata)] ==
                    IF k = 0 THEN 0 ELSE off[k - 1] + Len(appdata[k].tags)
            IN /\ appdata = acall.pre
               /\ Len(acall.ret) = off[Len(appdata)]
               /\ \A k \in 1..Len(appdata) :
                     SubSeq(acall.ret, off[k - 1] + 1, off[k]) = appdata[k].tags
               /\ appdata = <<>> => acall.ret = <<>>
       /\ (acall.op \in {"set", "add"} /\ acall.err = "" /\ appdata # acall.pre) =>
            \/ keyseq(appdata) = keyseq(acall.pre)
            \/ /\ Len(appdata) = Len(acall.pre) + 1
               /\ appdata[Len(appdata)].key \notin od_keys(acall.pre)
               /\ SubSeq(appdata, 1, Len(acall.pre)) = acall.pre
       /\ acall.op = "add" /\ acall.err = "" =>
            LET id == uniform_appid(acall.appid)
            IN IF id \in od_keys(acall.pre)
               THEN keyseq(appdata) = keyseq(acall.pre)
               ELSE keyseq(appdata) = Append(keyseq(acall.pre), id)
       /\ acall.op = "set" /\ acall.tags # <<>> =>
            LET id == acall.tags[1].value
            IN IF id \in od_keys(acall.pre)
               THEN keyseq(appdata) = keyseq(acall.pre)
               ELSE keyseq(appdata) = Append(keyseq(acall.pre), id)
       /\ acall.op = "discard" =>
            keyseq(appdata) = SelectSeq(keyseq(acall.pre),
                                LAMBDA k : k # uniform_appid(acall.appid))

(* C16 witness: "{X" entered the store before "{ACAD", and the group of
   "{X" was written first *)
C16_Witness ==
    /\ acall.op = "export_dxf"
    /\ Len(appdata) = 2
    /\ appdata[1].key = "{X"
    /\ appdata[2].key = "{ACAD"
    /\ Len(appdata[2].tags) = 3
    /\ acall.ret = appdata[1].tags \o appdata[2].tags

-----------------------------------------------------------------------------
(* Properties of an AppData store changed through add and discard alone,
   checked under SpecADAddDiscard *)

(* C19: every key of the store is a fixed point of uniform_appid; an add
   with an id a makes contains(a) true and a discard makes it false, each
   for the one key uniform_appid(a) and no other, so that contains(a) tells
   whether an add of such an id came after the last discard of one; len is
   the number of distinct normalized ids stored; two ids with the same
   normal form address the same entry. *)
C19_AddDiscardOnly ==
    /\ \A k \in od_keys(appdata) : uniform_appid(k) = k
    /\ AD_len(appdata) = Cardinality({uniform_appid(k) : k \in od_keys(appdata)})
    /\ \A a, b \in AppIds :
         uniform_appid(a) = uniform_appid(b) =>
             /\ AD_contains(appdata, a) = AD_contains(appdata, b)
             /\ AD_get(appdata, a) = AD_get(appdata, b)
    /\ acall.op = "add" =>
         od_keys(appdata) = od_keys(acall.pre) \cup {uniform_appid(acall.appid)}
    /\ acall.op = "discard" =>
         od_keys(appdata) = od_keys(acall.pre) \ {uniform_appid(acall.appid)}
    /\ acall.op \notin {"add", "discard"} => appdata = acall.pre

====
